---- MODULE Spec2Model ----
(***************************************************************************)
(* Model of the Power BI -> blob storage -> Azure AI Search pipeline of    *)
(* backend/src: the HTTP controller runPipeline, PipelineService.run, the  *)
(* retry loop of executeDaxQuery, processPowerBiResponse, saveToParquet    *)
(* and the two AzureSearchService calls.  Every await of the code is a     *)
(* step of its own; the outcome of the awaited collaborator (fetch, the    *)
(* parquet writer, the blob client, the search client) is chosen by \E.    *)
(* getAccessToken, processPowerBiResponse and indexPowerBIData can also be *)
(* called on their own.  The chat relay of the frontend (route.ts, POST)   *)
(* is a further operation: its read loop, the streaming text decoder and   *)
(* the queue of the stream it returns are modelled chunk by chunk.         *)
(***************************************************************************)
EXTENDS Integers, Sequences, FiniteSets, TLC

(* ---------------------------- bounds ----------------------------------- *)
MaxQueries == 2        \* most entries of daxQueries in a request
MaxRetries == 4        \* largest `retries` argument of a direct executeDaxQuery call
MaxClock == 1          \* largest value Date.now() takes
MaxChunks == 3         \* most chunks the upstream body yields before it ends

(* ------------------------ program constants ---------------------------- *)
DefaultRetries == 3    \* executeDaxQuery(..., retries = 3)

VARIABLES
  entry,          \* which exported operation this execution calls
  pc,             \* position of the (single) flow of control
  body,           \* req.body of POST /extract-and-index
  qi,             \* index into Object.entries(daxQueries) of run's for loop
  extractedData,  \* run: extractedData, as a sequence of [name, env] entries
  processedData,  \* run: processedData, as a sequence of [name, rows] entries
  retries,        \* executeDaxQuery: the retries parameter
  i,              \* executeDaxQuery: the loop variable
  lastError,      \* executeDaxQuery: lastError
  result,         \* the value executeDaxQuery returned
  data,           \* saveToParquet: the data parameter
  blobName,       \* saveToParquet: the blobName parameter
  tmpFiles,       \* files under os.tmpdir()
  blobs,          \* blobs of the storage container
  now,            \* Date.now()
  indexed,        \* the dataframes handed to searchClient.uploadDocuments, per call
  runResult,      \* what run returned
  thrown,         \* the error that left the called operation
  response,       \* the HTTP response of the controller
  log,            \* history: the calls made and how they ended, in order
  backendUrl,     \* relay: process.env.BACKEND_URL is set
  relayResponse,  \* relay: the Response POST returned
  fetchCalls,     \* relay: the calls of fetch(backendUrl, ...) made
  upstreamResponse, \* relay: what fetch settled to
  upstream,       \* relay: the chunks reader.read() has yielded, in order
  decoder,        \* relay: the state of the TextDecoder used with {stream: true}
  emitted,        \* relay: the chunks handed to controller.enqueue, in order
  queue,          \* relay: the queue of the outbound ReadableStream
  delivered,      \* relay: the chunks the caller has taken from the outbound stream
  streamState,    \* relay: the outbound stream: none, readable, closed, errored
  upstreamEnd,    \* relay: how the upstream body ended: none, done, error
  accessToken,    \* executeDaxQuery: the accessToken parameter
  acquired,       \* what getAccessToken returned
  processed,      \* what a call of processPowerBiResponse on its own returned
  dataframes,     \* indexPowerBIData: the dataframes parameter
  documents,      \* indexPowerBIData: documents
  uploads,        \* the arrays handed to searchClient.uploadDocuments, per call
  runs,           \* two runs in flight: where each is in its saveToParquet call
  tempDir,        \* two runs in flight: the files under os.tmpdir(), by path
  container,      \* two runs in flight: the blobs of the container, by name
  touched         \* two runs in flight: whose file or blob each run read, sent, removed

\* The variables of the chat relay (route.ts).
relayVars == <<backendUrl, relayResponse, fetchCalls, upstreamResponse, upstream, decoder, emitted, queue,
               delivered, streamState, upstreamEnd>>

\* The credential: the parameter of executeDaxQuery, the result of getAccessToken.
tokenVars == <<accessToken, acquired>>

\* The result of processPowerBiResponse and the locals of indexPowerBIData.
localVars == <<processed, dataframes, documents, uploads>>

\* Two requests served at the same time, each by its own PipelineService.
twoVars == <<runs, tempDir, container, touched>>

vars == <<entry, pc, body, qi, extractedData, processedData, retries, i, lastError,
          result, data, blobName, tmpFiles, blobs, now, indexed, runResult, thrown,
          response, log, relayVars, tokenVars, localVars, twoVars>>

(* ----------------------------- values ---------------------------------- *)
AllNames == <<"sales", "costs", "stock", "staff">>

\* A row is the sequence of its [column, value] entries, in key order.
Row1 == <<[col |-> "region", val |-> "A"], [col |-> "amount", val |-> "10"]>>
Row2 == <<[col |-> "region", val |-> "B"], [col |-> "amount", val |-> "20"]>>
Rows0 == <<>>
Rows1 == <<Row1>>
Rows2 == <<Row1, Row2>>

\* An array of rows or null/undefined.
Null == [isNull |-> TRUE, rows |-> <<>>]
Some(rows) == [isNull |-> FALSE, rows |-> rows]

\* A table of a Power BI response: null, or an object with or without `rows`.
Table(rows) == [isNull |-> FALSE, hasRows |-> TRUE, rows |-> rows]
TableNoRows == [isNull |-> FALSE, hasRows |-> FALSE, rows |-> <<>>]
TableNull == [isNull |-> TRUE, hasRows |-> FALSE, rows |-> <<>>]

\* results[k]: null/undefined, or an object with or without `tables`.
Res(tables) == [isNull |-> FALSE, hasTables |-> TRUE, tables |-> tables]
ResNoTables == [isNull |-> FALSE, hasTables |-> FALSE, tables |-> <<>>]
ResNull == [isNull |-> TRUE, hasTables |-> FALSE, tables |-> <<>>]

\* What response.json() yields: "falsy" (null), or an object with or without `results`.
\* "none" stands for no value at all.
Env(results) == [tag |-> "obj", hasResults |-> TRUE, results |-> results]
EnvNoResults == [tag |-> "obj", hasResults |-> FALSE, results |-> <<>>]
EnvFalsy == [tag |-> "falsy", hasResults |-> FALSE, results |-> <<>>]
NoEnv == [tag |-> "none", hasResults |-> FALSE, results |-> <<>>]

EnvRows(rows) == Env(<<Res(<<Table(rows)>>)>>)

\* The responses the dataset endpoint gives in a pipeline run.
Envelopes ==
  { EnvFalsy, Env(<<Res(<<>>)>>), EnvRows(Rows0), EnvRows(Rows2),
    Env(<<Res(<<Table(Rows1), Table(Rows2)>>)>>) }

\* Errors.  `attempt` is the attempt number an executeDaxQuery error carries.
Err(kind, n) == [kind |-> kind, attempt |-> n]
Undefined == Err("undefined", 0)
FailKinds == {"status", "network"}

\* An entry of the history: the event, the query it belongs to, a number (attempt
\* number, timestamp, status code), a kind, and the body an attempt received.
Ev(e, q, n, k) == [ev |-> e, q |-> q, n |-> n, k |-> k, v |-> NoEnv]
EvAttempt(q, n, k, v) == [ev |-> "attempt", q |-> q, n |-> n, k |-> k, v |-> v]

NoResult == [status |-> "none", extractedData |-> <<>>, processedData |-> <<>>]
NoResponse == [status |-> 0, result |-> NoResult, details |-> Undefined]

\* req.body: datasetId and daxQueries present or not; the keys of daxQueries in
\* insertion order.  The keys of an object are distinct, and run treats every name
\* alike, so the first n names stand for every mapping of n queries.
QuerySeqs ==
  {SubSeq(AllNames, 1, n) : n \in 0..MaxQueries}
  \cup {s \in {<<"sales", "7">>, <<"7", "3">>} : Len(s) <= MaxQueries}
Bodies ==
  {[hasDatasetId |-> d, hasQueries |-> TRUE, queries |-> s] :
     d \in BOOLEAN, s \in QuerySeqs}
  \cup {[hasDatasetId |-> d, hasQueries |-> FALSE, queries |-> <<>>] : d \in BOOLEAN}
NoBody == [hasDatasetId |-> FALSE, hasQueries |-> FALSE, queries |-> <<>>]

\* The inputs of a direct saveToParquet call.
PersistInputs == {Null, Some(Rows0), Some(Rows1), Some(Rows2)}

(* ------------------------- pure functions ------------------------------ *)
\* processPowerBiResponse reads tables[0].rows: a null first table is a TypeError.
NormalizeThrows(r) ==
  /\ r.tag = "obj" /\ r.hasResults /\ Len(r.results) > 0
  /\ ~r.results[1].isNull
  /\ r.results[1].hasTables /\ Len(r.results[1].tables) > 0
  /\ r.results[1].tables[1].isNull

processPowerBiResponse(r) ==
  IF r.tag # "obj" \/ ~r.hasResults \/ Len(r.results) = 0 \/ r.results[1].isNull
  THEN Null
  ELSE LET tables == IF r.results[1].hasTables THEN r.results[1].tables ELSE <<>>
       IN  IF Len(tables) = 0
           THEN Null
           ELSE Some(IF tables[1].hasRows THEN tables[1].rows ELSE <<>>)

\* Object.keys(obj) of an object kept as a sequence of entries.
Keys(entries) == [k \in 1..Len(entries) |-> entries[k].name]

\* Mutant of the status: completed whatever was processed.
PipelineStatus_Always(proc) == "completed"

\* pipelineStatus: Object.keys(processedData).length > 0 ? 'completed' : 'failed'
PipelineStatus(proc) == IF Len(Keys(proc)) > 0 THEN "completed" ELSE "failed"

\* The object run returns.
PipelineResult(ext, proc) ==
  [status |-> PipelineStatus(proc), extractedData |-> ext, processedData |-> proc]

\* Property names that are array indices, and the numbers they are.
IsIndexKey(name) == name \in {"3", "7"}
IndexOf(name) == IF name = "3" THEN 3 ELSE 7

\* The index keys of a mapping in ascending order, its other keys in the order
\* they were inserted.
RECURSIVE Ascending(_)
Ascending(names) ==
  IF names = {} THEN <<>>
  ELSE LET least == CHOOSE n \in names : \A m \in names : IndexOf(n) <= IndexOf(m)
       IN <<least>> \o Ascending(names \ {least})
NotIndexKey(name) == ~IsIndexKey(name)

\* The keys of Object.entries(daxQueries): index keys first, ascending, then
\* the string keys in insertion order.
ObjectEntries(inserted) ==
  Ascending({inserted[k] : k \in {j \in 1..Len(inserted) : IsIndexKey(inserted[j])}})
  \o SelectSeq(inserted, NotIndexKey)

\* Mutant: the loop takes the entries from the last to the first.
CurName_Reversed ==
  IF entry = "http" /\ qi \in 1..Len(body.queries)
  THEN ObjectEntries(body.queries)[Len(body.queries) + 1 - qi]
  ELSE ""

\* The name of the query run's loop is at ("" outside a run).
CurName ==
  IF entry = "http" /\ qi \in 1..Len(body.queries)
  THEN ObjectEntries(body.queries)[qi]
  ELSE ""

\* An access token: undefined, or the access_token of a token response.
NoToken == "undefined"
Tokens == {"tokenA", "tokenB"}

(* ----------------------- the relay's values ---------------------------- *)
\* Bytes of a chunk: "a" is an ASCII byte, "L" "C" the lead and continuation byte
\* of a two-byte character, "B" the byte-order mark EF BB BF (taken whole), "F"
\* the encoding EF BF BD of the replacement character U+FFFD.
Chunks == { <<"a">>, <<"a", "L">>, <<"C", "a">>, <<"L", "C">>, <<"B">> }

\* new TextDecoder(): no byte pending, nothing decoded yet.
NewDecoder == [pending |-> <<>>, atStart |-> TRUE]

\* The Response POST returns: status, body text (or "" with a streamed body).
RelayResponse(st, msg, streamed) == [status |-> st, message |-> msg, streamed |-> streamed]
NoRelayResponse == RelayResponse(0, "", FALSE)

\* What await fetch(...) settles to: a rejection, or a response with its ok
\* flag, status, statusText and whether body is non-null.
Answer(st, text, hasBody) ==
  [settled |-> "resolved", ok |-> st \in 200..299, status |-> st, statusText |-> text,
   hasBody |-> hasBody]
NoAnswer == [settled |-> "none", ok |-> FALSE, status |-> 0, statusText |-> "",
             hasBody |-> FALSE]
Rejected == [settled |-> "rejected", ok |-> FALSE, status |-> 0, statusText |-> "",
             hasBody |-> FALSE]
UpstreamAnswers == { Rejected,
                     Answer(404, "Not Found", TRUE),
                     Answer(503, "Service Unavailable", FALSE),
                     Answer(204, "No Content", FALSE),
                     Answer(200, "OK", TRUE) }

(* ------------------- the values of two runs in flight ------------------ *)
Runs == {1, 2}

\* The blob names two runs can make: a query name and a reading of the clock.
BlobNames == {"sales", "costs"} \X (0..MaxClock)

\* A file or blob: absent, or the rows in it and the run that wrote them.
NoFile == [present |-> FALSE, by |-> 0, rows |-> <<>>]
File(r, rows) == [present |-> TRUE, by |-> r, rows |-> rows]

\* A run before, inside and after its saveToParquet call.
IdleRun == [at |-> "idle", blobName |-> <<"", 0>>, rows |-> <<>>, parquetData |-> NoFile]

(* ------------------------------ Init ----------------------------------- *)
\* Nothing has been called yet.  The services are taken as constructed and the
\* modules as linked: the configuration object and the module wiring they read
\* are collaborators of the operations modelled here.
Init ==
  /\ entry = "none"
  /\ pc = "idle"
  /\ body = NoBody
  /\ qi = 0
  /\ extractedData = <<>>
  /\ processedData = <<>>
  /\ retries = 0
  /\ i = 0
  /\ lastError = Undefined
  /\ result = NoEnv
  /\ data = Null
  /\ blobName = <<"", 0>>
  /\ tmpFiles = {}
  /\ blobs = {}
  /\ now = 0
  /\ indexed = <<>>
  /\ runResult = NoResult
  /\ thrown = Undefined
  /\ response = NoResponse
  /\ log = <<>>
  /\ backendUrl = FALSE
  /\ relayResponse = NoRelayResponse
  /\ fetchCalls = 0
  /\ upstreamResponse = NoAnswer
  /\ upstream = <<>>
  /\ decoder = NewDecoder
  /\ emitted = <<>>
  /\ queue = <<>>
  /\ delivered = <<>>
  /\ streamState = "none"
  /\ upstreamEnd = "none"
  /\ accessToken = NoToken
  /\ acquired = NoToken
  /\ processed = Null
  /\ dataframes = <<>>
  /\ documents = <<>>
  /\ uploads = <<>>
  /\ runs = [r \in Runs |-> IdleRun]
  /\ tempDir = [bn \in BlobNames |-> NoFile]
  /\ container = [bn \in BlobNames |-> NoFile]
  /\ touched = {}

(* --------------------- how an operation ends --------------------------- *)
\* An error leaves the called operation.  Inside run nothing catches it, so it
\* reaches the catch of runPipeline, which answers 500 with the error's message.
Throw(err, events) ==
  /\ thrown' = err
  /\ pc' = "done"
  /\ IF entry = "http"
     THEN /\ response' = [status |-> 500, result |-> NoResult, details |-> err]
          /\ log' = log \o events \o <<Ev("run.throw", "", 0, err.kind),
                                       Ev("respond", "", 500, err.kind)>>
     ELSE /\ response' = response
          /\ log' = log \o events

\* run returns its summary, and runPipeline answers 200 with it.
ReturnRun(events) ==
  /\ runResult' = PipelineResult(extractedData, processedData)
  /\ response' = [status |-> 200, result |-> PipelineResult(extractedData, processedData),
                  details |-> Undefined]
  /\ pc' = "done"
  /\ log' = log \o events \o <<Ev("run.return", "", 0, ""), Ev("respond", "", 200, "")>>

(* --------------------------- saveToParquet ----------------------------- *)
\* Mutant of the guard: only an absent array is refused.
NoDataToSave_NullOnly(d) == d.isNull

\* if (!data || data.length === 0) throw new Error('No data to save.')
NoDataToSave(d) == d.isNull \/ Len(d.rows) = 0

\* path.join(os.tmpdir(), `${blobName}.parquet`): one temporary file per blob name.
TempFilePath(bn) == bn

\* The call of saveToParquet(d, bn) up to its first await.
SaveToParquet(d, bn, events) ==
  /\ data' = d
  /\ blobName' = bn
  /\ IF NoDataToSave(d)
     THEN Throw(Err("nodata", 0),
                events \o <<Ev("persist.call", bn[1], bn[2], ""),
                            Ev("persist.throw", bn[1], bn[2], "nodata")>>)
     ELSE /\ pc' = "openFile"
          /\ log' = log \o events \o <<Ev("persist.call", bn[1], bn[2], "")>>
          /\ UNCHANGED <<thrown, response>>

\* saveToParquet returned: run goes on with the next entry of daxQueries.
AfterSave ==
  IF entry = "http"
  THEN /\ pc' = "loop"
       /\ qi' = qi + 1
  ELSE /\ pc' = "done"
       /\ qi' = qi

\* await ParquetWriter.openFile(schema, tempFilePath)
OpenFile ==
  /\ pc = "openFile"
  /\ \/ /\ tmpFiles' = tmpFiles \cup {TempFilePath(blobName)}
        /\ pc' = "write"
        /\ UNCHANGED <<thrown, response, log>>
     \/ /\ tmpFiles' = tmpFiles
        /\ Throw(Err("fs.open", 0), <<Ev("persist.throw", blobName[1], blobName[2], "fs.open")>>)
  /\ UNCHANGED <<entry, body, qi, extractedData, processedData, retries, i, lastError,
                 result, data, blobName, blobs, now, indexed, runResult>>
  /\ UNCHANGED relayVars
  /\ UNCHANGED tokenVars
  /\ UNCHANGED localVars
  /\ UNCHANGED twoVars

\* for (const row of data) await writer.appendRow(row); await writer.close()
WriteRows ==
  /\ pc = "write"
  /\ \/ /\ pc' = "readFile"
        /\ UNCHANGED <<thrown, response, log>>
     \/ Throw(Err("fs.write", 0), <<Ev("persist.throw", blobName[1], blobName[2], "fs.write")>>)
  /\ UNCHANGED <<entry, body, qi, extractedData, processedData, retries, i, lastError,
                 result, data, blobName, tmpFiles, blobs, now, indexed, runResult>>
  /\ UNCHANGED relayVars
  /\ UNCHANGED tokenVars
  /\ UNCHANGED localVars
  /\ UNCHANGED twoVars

\* await fs.readFile(tempFilePath)
ReadFile ==
  /\ pc = "readFile"
  /\ \/ /\ pc' = "upload"
        /\ UNCHANGED <<thrown, response, log>>
     \/ Throw(Err("fs.read", 0), <<Ev("persist.throw", blobName[1], blobName[2], "fs.read")>>)
  /\ UNCHANGED <<entry, body, qi, extractedData, processedData, retries, i, lastError,
                 result, data, blobName, tmpFiles, blobs, now, indexed, runResult>>
  /\ UNCHANGED relayVars
  /\ UNCHANGED tokenVars
  /\ UNCHANGED localVars
  /\ UNCHANGED twoVars

\* await blockBlobClient.upload(parquetData, parquetData.length, {overwrite: true})
Upload ==
  /\ pc = "upload"
  /\ \/ /\ blobs' = blobs \cup {blobName}
        /\ pc' = "unlink"
        /\ log' = log \o <<Ev("upload", blobName[1], blobName[2], "ok")>>
        /\ UNCHANGED <<thrown, response>>
     \/ /\ blobs' = blobs
        /\ Throw(Err("upload", 0), <<Ev("upload", blobName[1], blobName[2], "fail"),
                                     Ev("persist.throw", blobName[1], blobName[2], "upload")>>)
  /\ UNCHANGED <<entry, body, qi, extractedData, processedData, retries, i, lastError,
                 result, data, blobName, tmpFiles, now, indexed, runResult>>
  /\ UNCHANGED relayVars
  /\ UNCHANGED tokenVars
  /\ UNCHANGED localVars
  /\ UNCHANGED twoVars

\* await fs.unlink(tempFilePath); return `Parquet data saved to blob: ${blobName}`
Unlink ==
  /\ pc = "unlink"
  /\ \/ /\ tmpFiles' = tmpFiles \ {TempFilePath(blobName)}
        /\ AfterSave
        /\ log' = log \o <<Ev("persist.ok", blobName[1], blobName[2], "")>>
        /\ UNCHANGED <<thrown, response>>
     \/ /\ tmpFiles' = tmpFiles
        /\ qi' = qi
        /\ Throw(Err("fs.unlink", 0), <<Ev("persist.throw", blobName[1], blobName[2], "fs.unlink")>>)
  /\ UNCHANGED <<entry, body, extractedData, processedData, retries, i, lastError,
                 result, data, blobName, blobs, now, indexed, runResult>>
  /\ UNCHANGED relayVars
  /\ UNCHANGED tokenVars
  /\ UNCHANGED localVars
  /\ UNCHANGED twoVars

\* A direct call of saveToParquet(d, blobName).
CallPersist ==
  /\ pc = "idle"
  /\ entry' = "persist"
  /\ \E d \in PersistInputs : SaveToParquet(d, <<"direct", 0>>, <<>>)
  /\ UNCHANGED <<body, qi, extractedData, processedData, retries, i, lastError,
                 result, tmpFiles, blobs, now, indexed, runResult>>
  /\ UNCHANGED relayVars
  /\ UNCHANGED tokenVars
  /\ UNCHANGED localVars
  /\ UNCHANGED twoVars

(* --------------------------- getAccessToken ---------------------------- *)
\* getAccessToken is called on its own: the token request is sent.
CallGetAccessToken ==
  /\ pc = "idle"
  /\ entry' = "token"
  /\ pc' = "token_fetch"
  /\ log' = log \o <<Ev("acquire.call", "", 0, "")>>
  /\ UNCHANGED <<body, qi, extractedData, processedData, retries, i, lastError, result,
                 data, blobName, tmpFiles, blobs, now, indexed, runResult, thrown, response>>
  /\ UNCHANGED relayVars
  /\ UNCHANGED tokenVars
  /\ UNCHANGED localVars
  /\ UNCHANGED twoVars

\* await fetch(tokenUrl, ...) settles.
TokenFetch ==
  /\ pc = "token_fetch"
  /\ \/ /\ pc' = "token_json"
        /\ UNCHANGED <<thrown, response, log>>
     \/ Throw(Err("network", 0), <<Ev("acquire.throw", "", 0, "network")>>)
  /\ UNCHANGED <<entry, body, qi, extractedData, processedData, retries, i, lastError,
                 result, data, blobName, tmpFiles, blobs, now, indexed, runResult>>
  /\ UNCHANGED relayVars
  /\ UNCHANGED tokenVars
  /\ UNCHANGED localVars
  /\ UNCHANGED twoVars

\* await response.json() settles: data.access_token is returned when present.
TokenJson ==
  /\ pc = "token_json"
  /\ \/ \E t \in Tokens :
          /\ acquired' = t
          /\ pc' = "done"
          /\ log' = log \o <<Ev("acquire.ok", "", 0, t)>>
          /\ UNCHANGED <<thrown, response>>
     \/ /\ Throw(Err("notoken", 0), <<Ev("acquire.throw", "", 0, "notoken")>>)
        /\ UNCHANGED acquired
     \/ /\ Throw(Err("json", 0), <<Ev("acquire.throw", "", 0, "json")>>)
        /\ UNCHANGED acquired
  /\ UNCHANGED <<entry, body, qi, extractedData, processedData, retries, i, lastError,
                 result, data, blobName, tmpFiles, blobs, now, indexed, runResult>>
  /\ UNCHANGED relayVars
  /\ UNCHANGED accessToken
  /\ UNCHANGED localVars
  /\ UNCHANGED twoVars

(* -------------------------- executeDaxQuery ---------------------------- *)
\* Mutant: the loop allows one attempt more.
LoopCondition_OneMore(i_, r) == i_ < r + 1

\* for (let i = 0; i < retries; i++)
LoopCondition(i_, r) == i_ < r

\* Mutants of the delay test: never wait, and wait after the last failure too.
RetryAfter_Never(i_, r) == FALSE
RetryAfter_Always(i_, r) == TRUE

\* if (i < retries - 1) { await delay(2000) }
RetryAfter(i_, r) == i_ < r - 1

\* The call of executeDaxQuery up to the first test of its loop.
ExecuteDaxQuery(token, r) ==
  /\ accessToken' = token
  /\ retries' = r
  /\ i' = 0
  /\ lastError' = Undefined
  /\ result' = NoEnv
  /\ pc' = "exec_loop"

\* The ways an attempt fails.  A direct call meets every sequence of them; in a
\* run, where both reach the same catch block and only the last error leaves
\* the call, the endpoint fails with a status.
FetchFailures == IF entry = "http" THEN {"status"} ELSE FailKinds

\* One pass of the try block: await fetch(...), then response.ok is tested.  A
\* response that is not ok, a rejected fetch and a body that fails to parse all
\* reach the catch block, which records the error.
Fetch ==
  /\ pc = "exec_loop"
  /\ LoopCondition(i, retries)
  /\ \/ \E env \in Envelopes :
          /\ result' = env
          /\ pc' = "exec_return"
          /\ log' = log \o <<EvAttempt(CurName, i + 1, "ok", env)>>
          /\ UNCHANGED <<i, lastError>>
     \/ \E kind \in FetchFailures :
          /\ lastError' = Err(kind, i + 1)
          /\ log' = log \o <<EvAttempt(CurName, i + 1, kind, NoEnv)>>
          /\ IF RetryAfter(i, retries)
             THEN pc' = "delay" /\ i' = i
             ELSE pc' = "exec_loop" /\ i' = i + 1
          /\ UNCHANGED result
  /\ UNCHANGED <<entry, body, qi, extractedData, processedData, retries, data, blobName,
                 tmpFiles, blobs, now, indexed, runResult, thrown, response>>
  /\ UNCHANGED relayVars
  /\ UNCHANGED tokenVars
  /\ UNCHANGED localVars
  /\ UNCHANGED twoVars

\* await delay(2000), then i++
Delay ==
  /\ pc = "delay"
  /\ i' = i + 1
  /\ pc' = "exec_loop"
  /\ log' = log \o <<Ev("wait", CurName, i + 1, "")>>
  /\ UNCHANGED <<entry, body, qi, extractedData, processedData, retries, lastError, result,
                 data, blobName, tmpFiles, blobs, now, indexed, runResult, thrown, response>>
  /\ UNCHANGED relayVars
  /\ UNCHANGED tokenVars
  /\ UNCHANGED localVars
  /\ UNCHANGED twoVars

\* The loop is left: console.error('All retry attempts failed.'); throw lastError
Exhausted ==
  /\ pc = "exec_loop"
  /\ ~LoopCondition(i, retries)
  /\ Throw(lastError, <<Ev("execute.throw", CurName, i, lastError.kind)>>)
  /\ UNCHANGED <<entry, body, qi, extractedData, processedData, retries, i, lastError,
                 result, data, blobName, tmpFiles, blobs, now, indexed, runResult>>
  /\ UNCHANGED relayVars
  /\ UNCHANGED tokenVars
  /\ UNCHANGED localVars
  /\ UNCHANGED twoVars

\* A direct call of executeDaxQuery(datasetId, daxQuery, accessToken, retries).
CallExecute ==
  /\ pc = "idle"
  /\ entry' = "execute"
  /\ \E r \in 0..MaxRetries, token \in {NoToken, "tokenA"} : ExecuteDaxQuery(token, r)
  /\ log' = log \o <<Ev("execute.call", "", 0, "")>>
  /\ UNCHANGED <<body, qi, extractedData, processedData, data, blobName, tmpFiles, blobs,
                 now, indexed, runResult, thrown, response>>
  /\ UNCHANGED relayVars
  /\ UNCHANGED acquired
  /\ UNCHANGED localVars
  /\ UNCHANGED twoVars

\* return data, to a direct caller.
ExecuteReturn ==
  /\ pc = "exec_return"
  /\ entry = "execute"
  /\ pc' = "done"
  /\ log' = log \o <<Ev("execute.return", "", i + 1, "")>>
  /\ UNCHANGED <<entry, body, qi, extractedData, processedData, retries, i, lastError,
                 result, data, blobName, tmpFiles, blobs, now, indexed, runResult, thrown,
                 response>>
  /\ UNCHANGED relayVars
  /\ UNCHANGED tokenVars
  /\ UNCHANGED localVars
  /\ UNCHANGED twoVars

(* --------------------------- indexPowerBIData -------------------------- *)
\* The characters of a query name and of a number, as template literals join them.
NameChars(name) ==
  CASE name = "sales" -> <<"s", "a", "l", "e", "s">>
    [] name = "costs" -> <<"c", "o", "s", "t", "s">>
    [] name = "stock" -> <<"s", "t", "o", "c", "k">>
    [] name = "staff" -> <<"s", "t", "a", "f", "f">>
    [] name = "q"     -> <<"q">>
    [] name = "q_1"   -> <<"q", "_", "1">>
    [] name = "3"     -> <<"3">>
    [] name = "7"     -> <<"7">>
    [] OTHER          -> <<>>

DigitChar(d) ==
  CASE d = 0 -> "0" [] d = 1 -> "1" [] d = 2 -> "2" [] d = 3 -> "3" [] d = 4 -> "4"
    [] d = 5 -> "5" [] d = 6 -> "6" [] d = 7 -> "7" [] d = 8 -> "8" [] OTHER -> "9"

RECURSIVE Digits(_)
Digits(n) == IF n < 10 THEN <<DigitChar(n)>> ELSE Digits(n \div 10) \o <<DigitChar(n % 10)>>

\* Mutant: the identifier leaves the query name out.
DocumentId_NoName(queryName, t) ==
  <<"p", "o", "w", "e", "r", "b", "i", "_">> \o Digits(t)

\* id: `powerbi_${queryName}_${Date.now()}`
DocumentId(queryName, t) ==
  <<"p", "o", "w", "e", "r", "b", "i", "_">> \o NameChars(queryName) \o <<"_">> \o Digits(t)

\* Mutant: the row count is the number of columns of the first row.
RowCount_Columns(df) == IF df = <<>> THEN 0 ELSE Len(df[1])

\* rowCount: df.length
RowCount(df) == Len(df)

\* columns: Object.keys(df[0] || {})
Columns(df) == IF df = <<>> THEN <<>> ELSE [k \in 1..Len(df[1]) |-> df[1][k].col]

\* The document of one entry; content and metadata are the values handed to
\* JSON.stringify, tId and tMeta the two readings of the clock.
Document(queryName, df, tId, tMeta) ==
  [id |-> DocumentId(queryName, tId),
   content |-> df,
   title |-> <<"Power BI Data - ", queryName>>,
   metadata |-> [source |-> "PowerBI", query |-> queryName, timestamp |-> tMeta,
                 rowCount |-> RowCount(df), columns |-> Columns(df)]]

\* The readings of the clock while n documents are built: two each, never back.
ClockReadings(n) ==
  {ts \in [1..(2 * n) -> now..MaxClock] : \A k \in 1..(2 * n - 1) : ts[k] <= ts[k + 1]}

\* indexPowerBIData up to its await: one document per entry of dataframes, in
\* the order of Object.entries, then uploadDocuments(documents) is called.
IndexPowerBIData(dfs) ==
  \E ts \in ClockReadings(Len(dfs)) :
    /\ dataframes' = dfs
    /\ documents' = [k \in 1..Len(dfs) |->
                       Document(dfs[k].name, dfs[k].rows, ts[2 * k - 1], ts[2 * k])]
    /\ now' = IF Len(dfs) = 0 THEN now ELSE ts[2 * Len(dfs)]
    /\ pc' = "index"
    /\ log' = log \o <<Ev("indexBatch.call", "", Len(dfs), "")>>

\* indexPowerBIData returns true: run returns, or the direct call is over.
IndexReturns(events) ==
  IF entry = "http"
  THEN ReturnRun(events)
  ELSE /\ pc' = "done"
       /\ log' = log \o events
       /\ UNCHANGED <<runResult, response>>

\* The inputs of a direct indexPowerBIData call.
IndexInputs ==
  { <<>>,
    <<[name |-> "q", rows |-> Rows0]>>,
    <<[name |-> "q", rows |-> Rows2]>>,
    <<[name |-> "q", rows |-> Rows1], [name |-> "q_1", rows |-> Rows2]>>,
    <<[name |-> "q_1", rows |-> Rows2], [name |-> "q", rows |-> Rows0]>> }

\* indexPowerBIData is called on its own.
CallIndex ==
  /\ pc = "idle"
  /\ entry' = "index"
  /\ \E dfs \in IndexInputs : IndexPowerBIData(dfs)
  /\ UNCHANGED <<body, qi, extractedData, processedData, retries, i, lastError, result,
                 data, blobName, tmpFiles, blobs, indexed, runResult, thrown, response>>
  /\ UNCHANGED relayVars
  /\ UNCHANGED tokenVars
  /\ UNCHANGED <<processed, uploads>>
  /\ UNCHANGED twoVars

(* ------------------------ processPowerBiResponse ----------------------- *)
\* The arguments of a direct processPowerBiResponse call.
NormalizeInputs ==
  { EnvFalsy, EnvNoResults, Env(<<>>), Env(<<ResNull>>), Env(<<ResNoTables>>),
    Env(<<Res(<<>>)>>), Env(<<Res(<<TableNull>>)>>), Env(<<Res(<<TableNoRows>>)>>),
    EnvRows(Rows0), EnvRows(Rows1), EnvRows(Rows2),
    Env(<<Res(<<Table(Rows1), Table(Rows2)>>)>>),
    Env(<<Res(<<Table(Rows2), TableNull>>), ResNull>>) }

\* processPowerBiResponse is called on its own: it returns or throws at once.
CallNormalize ==
  /\ pc = "idle"
  /\ entry' = "normalize"
  /\ \E r \in NormalizeInputs :
       /\ result' = r
       /\ IF NormalizeThrows(r)
          THEN /\ Throw(Err("type", 0), <<Ev("normalize.throw", "", 0, "type")>>)
               /\ UNCHANGED processed
          ELSE /\ processed' = processPowerBiResponse(r)
               /\ pc' = "done"
               /\ log' = log \o <<Ev("normalize.return", "", 0, "")>>
               /\ UNCHANGED <<thrown, response>>
  /\ UNCHANGED <<body, qi, extractedData, processedData, retries, i, lastError, data,
                 blobName, tmpFiles, blobs, now, indexed, runResult>>
  /\ UNCHANGED relayVars
  /\ UNCHANGED tokenVars
  /\ UNCHANGED <<dataframes, documents, uploads>>
  /\ UNCHANGED twoVars

(* ------------------------- PipelineService.run ------------------------- *)
\* Mutant of the test before indexing: one processed query is not enough.
HasProcessedData_Several(proc) == Len(Keys(proc)) > 1

\* if (Object.keys(processedData).length > 0)
HasProcessedData(proc) == Len(Keys(proc)) > 0

\* Mutant of the loop: it is left after the first entry.
LoopFinished_AfterFirst(q, n) == q > 1

\* for (const [queryName, daxQuery] of Object.entries(daxQueries)): no entry is left.
LoopFinished(q, n) == q > n

\* Mutant of the test of the normalized value: an empty array is skipped too.
IsProcessed_NonEmpty(p) == ~p.isNull /\ Len(p.rows) > 0

\* Mutant of the test of the normalized value: nothing is skipped.
IsProcessed_Always(p) == TRUE

\* if (processed)
IsProcessed(p) == ~p.isNull

\* runPipeline: the 400 answer, or new PipelineService() and run up to the await
\* of createSearchIndex.
\* Mutant: the request is refused only when both parameters are missing.
MissingParams_Both(b) == ~b.hasDatasetId /\ ~b.hasQueries

\* if (!datasetId || !daxQueries)
MissingParams(b) == ~b.hasDatasetId \/ ~b.hasQueries

ReceiveRequest ==
  /\ pc = "idle"
  /\ entry' = "http"
  /\ \E b \in Bodies :
       /\ body' = b
       /\ IF MissingParams(b)
          THEN /\ response' = [status |-> 400, result |-> NoResult,
                               details |-> Err("missing", 0)]
               /\ pc' = "done"
               /\ log' = log \o <<Ev("respond", "", 400, "missing")>>
          ELSE /\ response' = response
               /\ pc' = "ensureIndex"
               /\ log' = log \o <<Ev("ensureIndex.call", "", 0, "")>>
  /\ extractedData' = <<>>
  /\ processedData' = <<>>
  /\ UNCHANGED <<qi, retries, i, lastError, result, data, blobName, tmpFiles, blobs, now,
                 indexed, runResult, thrown>>
  /\ UNCHANGED relayVars
  /\ UNCHANGED tokenVars
  /\ UNCHANGED localVars
  /\ UNCHANGED twoVars

\* await this.azureSearchService.createSearchIndex()
CreateSearchIndex ==
  /\ pc = "ensureIndex"
  /\ \/ /\ pc' = "loop"
        /\ qi' = 1
        /\ log' = log \o <<Ev("ensureIndex.ok", "", 0, "")>>
        /\ UNCHANGED <<thrown, response>>
     \/ /\ qi' = qi
        /\ Throw(Err("index.create", 0), <<Ev("ensureIndex.fail", "", 0, "")>>)
  /\ UNCHANGED <<entry, body, extractedData, processedData, retries, i, lastError, result,
                 data, blobName, tmpFiles, blobs, now, indexed, runResult>>
  /\ UNCHANGED relayVars
  /\ UNCHANGED tokenVars
  /\ UNCHANGED localVars
  /\ UNCHANGED twoVars

\* The for loop takes the next entry and calls executeDaxQuery(datasetId, daxQuery).
\* The third argument of this.powerBIService.executeDaxQuery(datasetId, daxQuery).
QueryCredential == NoToken

NextQuery ==
  /\ pc = "loop"
  /\ ~LoopFinished(qi, Len(body.queries))
  /\ ExecuteDaxQuery(QueryCredential, DefaultRetries)
  /\ log' = log \o <<Ev("execute.call", CurName, 0, "")>>
  /\ UNCHANGED <<entry, body, qi, extractedData, processedData, data, blobName, tmpFiles,
                 blobs, now, indexed, runResult, thrown, response>>
  /\ UNCHANGED relayVars
  /\ UNCHANGED acquired
  /\ UNCHANGED localVars
  /\ UNCHANGED twoVars

\* executeDaxQuery returned to run: lines 44-56 up to the await of saveToParquet.
ProcessResult ==
  /\ pc = "exec_return"
  /\ entry = "http"
  /\ LET ret == <<Ev("execute.return", CurName, i + 1, "")>> IN
     IF result.tag # "obj"
     THEN /\ pc' = "loop"
          /\ qi' = qi + 1
          /\ log' = log \o ret \o <<Ev("skip", CurName, 0, "falsy")>>
          /\ UNCHANGED <<extractedData, processedData, data, blobName, now, thrown, response>>
     ELSE IF NormalizeThrows(result)
     THEN /\ Throw(Err("type", 0), ret)
          /\ UNCHANGED <<qi, extractedData, processedData, data, blobName, now>>
     ELSE IF ~IsProcessed(processPowerBiResponse(result))
     THEN /\ pc' = "loop"
          /\ qi' = qi + 1
          /\ log' = log \o ret \o <<Ev("skip", CurName, 0, "null")>>
          /\ UNCHANGED <<extractedData, processedData, data, blobName, now, thrown, response>>
     ELSE /\ extractedData' = Append(extractedData, [name |-> CurName, val |-> result])
          /\ processedData' =
               Append(processedData,
                      [name |-> CurName, rows |-> processPowerBiResponse(result).rows])
          /\ qi' = qi
          /\ \E t \in now..MaxClock :
               /\ now' = t
               /\ SaveToParquet(processPowerBiResponse(result), <<CurName, t>>, ret)
  /\ UNCHANGED <<entry, body, retries, i, lastError, result, tmpFiles, blobs, indexed,
                 runResult>>
  /\ UNCHANGED relayVars
  /\ UNCHANGED tokenVars
  /\ UNCHANGED localVars
  /\ UNCHANGED twoVars

\* The loop is over.  With processed data run awaits indexPowerBIData, without it
\* run returns at once.
LoopDone ==
  /\ pc = "loop"
  /\ LoopFinished(qi, Len(body.queries))
  /\ IF HasProcessedData(processedData)
     THEN /\ IndexPowerBIData(processedData)
          /\ UNCHANGED <<runResult, response>>
     ELSE /\ ReturnRun(<<>>)
          /\ UNCHANGED <<now, dataframes, documents>>
  /\ UNCHANGED <<entry, body, qi, extractedData, processedData, retries, i, lastError,
                 result, data, blobName, tmpFiles, blobs, indexed, thrown, uploads>>
  /\ UNCHANGED relayVars
  /\ UNCHANGED tokenVars
  /\ UNCHANGED processed
  /\ UNCHANGED twoVars

\* Mutant of the indexing call: a failed upload is logged and run returns all the same.
UploadDocuments_Swallow ==
  /\ pc = "index"
  /\ indexed' = Append(indexed, dataframes)
  /\ uploads' = Append(uploads, documents)
  /\ \/ IndexReturns(<<Ev("indexBatch.ok", "", Len(dataframes), "")>>)
     \/ IndexReturns(<<Ev("indexBatch.fail", "", Len(dataframes), "")>>)
  /\ UNCHANGED <<entry, body, qi, extractedData, processedData, retries, i, lastError,
                 result, data, blobName, tmpFiles, blobs, now, thrown, dataframes,
                 documents>>
  /\ UNCHANGED relayVars
  /\ UNCHANGED tokenVars
  /\ UNCHANGED processed
  /\ UNCHANGED twoVars

\* indexPowerBIData: await this.searchClient.uploadDocuments(documents); return true,
\* then run returns.
UploadDocuments ==
  /\ pc = "index"
  /\ indexed' = Append(indexed, dataframes)
  /\ uploads' = Append(uploads, documents)
  /\ \/ /\ IndexReturns(<<Ev("indexBatch.ok", "", Len(dataframes), "")>>)
        /\ UNCHANGED thrown
     \/ /\ Throw(Err("index.upload", 0), <<Ev("indexBatch.fail", "", Len(dataframes), "")>>)
        /\ UNCHANGED runResult
  /\ UNCHANGED <<entry, body, qi, extractedData, processedData, retries, i, lastError,
                 result, data, blobName, tmpFiles, blobs, now, dataframes, documents>>
  /\ UNCHANGED relayVars
  /\ UNCHANGED tokenVars
  /\ UNCHANGED processed
  /\ UNCHANGED twoVars

(* ------------------------- the relay: POST ----------------------------- *)
\* One byte through the streaming UTF-8 decoder: d is the decoder, out the
\* characters decoded so far ("a", "e" the two-byte character, "FFFD", "FEFF").
\* A byte that cannot continue the pending bytes turns them into U+FFFD; a
\* byte-order mark is dropped when it opens the stream.
DecodeByte(d, out, b) ==
  LET bad == IF d.pending = <<>> THEN <<>> ELSE <<"FFFD">>
      first == d.atStart /\ d.pending = <<>>
  IN CASE b = "a" -> [dec |-> [pending |-> <<>>, atStart |-> FALSE],
                      out |-> out \o bad \o <<"a">>]
       [] b = "L" -> [dec |-> [pending |-> <<"L">>, atStart |-> first],
                      out |-> out \o bad]
       [] b = "C" -> [dec |-> [pending |-> <<>>, atStart |-> FALSE],
                      out |-> out \o (IF d.pending = <<"L">> THEN <<"e">> ELSE <<"FFFD">>)]
       [] b = "B" -> [dec |-> [pending |-> <<>>, atStart |-> FALSE],
                      out |-> out \o bad \o (IF first THEN <<>> ELSE <<"FEFF">>)]
       [] OTHER   -> [dec |-> [pending |-> <<>>, atStart |-> FALSE],
                      out |-> out \o bad \o <<"FFFD">>]

RECURSIVE DecodeFrom(_, _, _)
DecodeFrom(d, out, bytes) ==
  IF bytes = <<>> THEN [dec |-> d, out |-> out]
  ELSE LET r == DecodeByte(d, out, Head(bytes))
       IN DecodeFrom(r.dec, r.out, Tail(bytes))

\* decoder.decode(value, {stream: true}): the characters of the chunk that are
\* complete; the bytes of an unfinished character are kept for the next call.
decode(d, value) == DecodeFrom(d, <<>>, value)

\* The UTF-8 bytes of one character.
EncodeChar(c) ==
  CASE c = "a" -> <<"a">>
    [] c = "e" -> <<"L", "C">>
    [] c = "FEFF" -> <<"B">>
    [] OTHER -> <<"F">>

\* new TextEncoder().encode(chunk)
RECURSIVE encode(_)
encode(str) == IF str = <<>> THEN <<>> ELSE EncodeChar(Head(str)) \o encode(Tail(str))

\* return new NextResponse(msg, {status: st})
Respond(st, msg) ==
  /\ relayResponse' = RelayResponse(st, msg, FALSE)
  /\ pc' = "done"

\* Mutant: the URL is never found missing.
NotConfigured_Never(url) == FALSE

\* if (!backendUrl)
NotConfigured(url) == ~url

\* Mutant: every upstream failure is answered with 500.
FailureStatus_Fixed(a) == 500

\* The status and text returned for an upstream answer that is not ok.
FailureStatus(a) == a.status
FailureText(a) == a.statusText

\* POST is called; the environment of the process has BACKEND_URL or not.
RelayReceive ==
  /\ pc = "idle"
  /\ entry' = "relay"
  /\ pc' = "r_json"
  /\ backendUrl' \in BOOLEAN
  /\ UNCHANGED <<body, qi, extractedData, processedData, retries, i, lastError, result,
                 data, blobName, tmpFiles, blobs, now, indexed, runResult, thrown, response,
                 log>>
  /\ UNCHANGED <<relayResponse, fetchCalls, upstreamResponse, upstream, decoder, emitted,
                 queue, delivered, streamState, upstreamEnd>>
  /\ UNCHANGED tokenVars
  /\ UNCHANGED localVars
  /\ UNCHANGED twoVars

\* await req.json() settles; the URL is read; fetch is called.
RelayParsed ==
  /\ entry = "relay"
  /\ pc = "r_json"
  /\ \/ /\ Respond(500, "Internal Server Error")
        /\ UNCHANGED fetchCalls
     \/ IF NotConfigured(backendUrl)
        THEN /\ Respond(500, "Backend URL is not configured.")
             /\ UNCHANGED fetchCalls
        ELSE /\ fetchCalls' = fetchCalls + 1
             /\ pc' = "r_fetch"
             /\ UNCHANGED relayResponse
  /\ UNCHANGED <<entry, body, qi, extractedData, processedData, retries, i, lastError,
                 result, data, blobName, tmpFiles, blobs, now, indexed, runResult, thrown,
                 response, log>>
  /\ UNCHANGED <<backendUrl, upstreamResponse, upstream, decoder, emitted, queue,
                 delivered, streamState, upstreamEnd>>
  /\ UNCHANGED tokenVars
  /\ UNCHANGED localVars
  /\ UNCHANGED twoVars

\* await fetch(...) settles: rejected, not ok, ok without a body, ok with a body.
\* With a body the stream is built, start() runs up to its first read, and the
\* streamed Response is returned.
RelayFetch ==
  /\ entry = "relay"
  /\ pc = "r_fetch"
  /\ \E a \in UpstreamAnswers :
       /\ upstreamResponse' = a
       /\ IF a.settled = "rejected"
          THEN Respond(500, "Internal Server Error") /\ UNCHANGED streamState
          ELSE IF ~a.ok
          THEN Respond(FailureStatus(a), FailureText(a)) /\ UNCHANGED streamState
          ELSE IF ~a.hasBody
          THEN Respond(500, "No response body from backend.") /\ UNCHANGED streamState
          ELSE /\ streamState' = "readable"
               /\ relayResponse' = RelayResponse(200, "", TRUE)
               /\ pc' = "r_read"
  /\ UNCHANGED <<entry, body, qi, extractedData, processedData, retries, i, lastError,
                 result, data, blobName, tmpFiles, blobs, now, indexed, runResult, thrown,
                 response, log>>
  /\ UNCHANGED <<backendUrl, fetchCalls, upstream, decoder, emitted, queue, delivered,
                 upstreamEnd>>
  /\ UNCHANGED tokenVars
  /\ UNCHANGED localVars
  /\ UNCHANGED twoVars

\* Mutant: a chunk is merged into the one that still waits in the queue.
Enqueue_Merge(q, chunk) == IF q = <<>> THEN <<chunk>> ELSE <<q[1] \o chunk>>

\* controller.enqueue(chunk): the chunk joins the queue of the outbound stream.
Enqueue(q, chunk) == Append(q, chunk)

\* Mutant: the stream is closed on done but the loop is not left.
OnDone_NoBreak ==
  /\ upstreamEnd' = "done"
  /\ streamState' = "closed"
  /\ pc' = pc

\* if (done) { controller.close(); break; }
OnDone ==
  /\ upstreamEnd' = "done"
  /\ streamState' = "closed"
  /\ pc' = "done"

\* await reader.read() settles inside start(): a chunk, done, or a rejection.
\* A rejection rejects start(), which errors the stream and drops its queue.
RelayRead ==
  /\ entry = "relay"
  /\ pc = "r_read"
  /\ \/ /\ Len(upstream) < MaxChunks
        /\ \E value \in Chunks :
             LET r == decode(decoder, value)
                 chunk == encode(r.out)
             IN /\ upstream' = Append(upstream, value)
                /\ decoder' = r.dec
                /\ emitted' = Append(emitted, chunk)
                /\ queue' = Enqueue(queue, chunk)
        /\ UNCHANGED <<pc, streamState, upstreamEnd>>
     \/ /\ OnDone
        /\ UNCHANGED <<upstream, decoder, emitted, queue>>
     \/ /\ upstreamEnd' = "error"
        /\ streamState' = "errored"
        /\ queue' = <<>>
        /\ pc' = "done"
        /\ UNCHANGED <<upstream, decoder, emitted>>
  /\ UNCHANGED <<entry, body, qi, extractedData, processedData, retries, i, lastError,
                 result, data, blobName, tmpFiles, blobs, now, indexed, runResult, thrown,
                 response, log>>
  /\ UNCHANGED <<backendUrl, relayResponse, fetchCalls, upstreamResponse, delivered>>
  /\ UNCHANGED tokenVars
  /\ UNCHANGED localVars
  /\ UNCHANGED twoVars

\* The caller takes the next chunk of the outbound stream.
Consume ==
  /\ entry = "relay"
  /\ queue /= <<>>
  /\ delivered' = Append(delivered, Head(queue))
  /\ queue' = Tail(queue)
  /\ UNCHANGED <<entry, pc, body, qi, extractedData, processedData, retries, i, lastError,
                 result, data, blobName, tmpFiles, blobs, now, indexed, runResult, thrown,
                 response, log>>
  /\ UNCHANGED <<backendUrl, relayResponse, fetchCalls, upstreamResponse, upstream,
                 decoder, emitted, streamState, upstreamEnd>>
  /\ UNCHANGED tokenVars
  /\ UNCHANGED localVars
  /\ UNCHANGED twoVars

(* ------------------------------ Next ----------------------------------- *)
Next ==
  \/ ReceiveRequest
  \/ CreateSearchIndex
  \/ NextQuery
  \/ Fetch
  \/ Delay
  \/ Exhausted
  \/ ProcessResult
  \/ LoopDone
  \/ UploadDocuments
  \/ OpenFile
  \/ WriteRows
  \/ ReadFile
  \/ Upload
  \/ Unlink
  \/ CallExecute
  \/ ExecuteReturn
  \/ CallPersist
  \/ CallGetAccessToken
  \/ TokenFetch
  \/ TokenJson
  \/ CallIndex
  \/ CallNormalize
  \/ RelayReceive
  \/ RelayParsed
  \/ RelayFetch
  \/ RelayRead
  \/ Consume

Spec == Init /\ [][Next]_vars

\* The steps the program takes by itself once an operation has been called:
\* the continuation of every await runs when the awaited call has settled.
Continue ==
  \/ CreateSearchIndex \/ NextQuery \/ Fetch \/ Delay \/ Exhausted \/ ProcessResult
  \/ LoopDone \/ UploadDocuments \/ OpenFile \/ WriteRows \/ ReadFile \/ Upload
  \/ Unlink \/ ExecuteReturn \/ TokenFetch \/ TokenJson
  \/ RelayParsed \/ RelayFetch \/ RelayRead

\* Every collaborator call settles and its continuation runs.
FairSpec == Spec /\ WF_vars(Continue)

(* ------------------- saveToParquet in two runs at once ----------------- *)
\* Everything but the clock and the variables of the two runs.
oneVars == <<entry, pc, body, qi, extractedData, processedData, retries, i, lastError,
             result, data, blobName, tmpFiles, blobs, indexed, runResult, thrown,
             response, log, relayVars, tokenVars, localVars>>

RunAt(r, at) == [runs EXCEPT ![r].at = at]

\* Run r used (read, uploaded, deleted, overwrote) something run `of` wrote.
Touch(r, what, f) == IF f.present THEN {[run |-> r, what |-> what, of |-> f.by]} ELSE {}

\* run makes the blob name from the query name and Date.now() and calls
\* saveToParquet with the rows of its query.
TwoBegin(r) ==
  /\ runs[r].at = "idle"
  /\ \E q \in {"sales", "costs"}, t \in now..MaxClock, rows \in {Rows1, Rows2} :
       /\ now' = t
       /\ runs' = [runs EXCEPT ![r] = [at |-> "openFile", blobName |-> <<q, t>>,
                                       rows |-> rows, parquetData |-> NoFile]]
  /\ UNCHANGED <<tempDir, container, touched>>
  /\ UNCHANGED oneVars

\* ParquetWriter.openFile: the file at the path is created, or emptied.
TwoOpenFile(r) ==
  /\ runs[r].at = "openFile"
  /\ tempDir' = [tempDir EXCEPT ![TempFilePath(runs[r].blobName)] = File(r, <<>>)]
  /\ runs' = RunAt(r, "appendRow")
  /\ UNCHANGED <<now, container, touched>>
  /\ UNCHANGED oneVars

\* appendRow for every row, then close: the rows are in the file if its path
\* still names it; if the other run removed it they go to a file without a name.
TwoWriteRows(r) ==
  /\ runs[r].at = "appendRow"
  /\ LET path == TempFilePath(runs[r].blobName)
     IN tempDir' = IF tempDir[path].present
                   THEN [tempDir EXCEPT ![path] = File(r, runs[r].rows)]
                   ELSE tempDir
  /\ runs' = RunAt(r, "readFile")
  /\ UNCHANGED <<now, container, touched>>
  /\ UNCHANGED oneVars

\* fs.readFile(tempFilePath): what is at the path now, or ENOENT.
TwoReadFile(r) ==
  /\ runs[r].at = "readFile"
  /\ LET f == tempDir[TempFilePath(runs[r].blobName)]
     IN IF f.present
        THEN /\ runs' = [runs EXCEPT ![r].at = "upload", ![r].parquetData = f]
             /\ touched' = touched \cup Touch(r, "read", f)
        ELSE /\ runs' = RunAt(r, "threw")
             /\ UNCHANGED touched
  /\ UNCHANGED <<now, tempDir, container>>
  /\ UNCHANGED oneVars

\* blockBlobClient.upload(parquetData, ..., {overwrite: true})
TwoUpload(r) ==
  /\ runs[r].at = "upload"
  /\ container' = [container EXCEPT ![runs[r].blobName] = File(r, runs[r].parquetData.rows)]
  /\ touched' = touched \cup Touch(r, "upload", runs[r].parquetData)
                        \cup Touch(r, "overwrite", container[runs[r].blobName])
  /\ runs' = RunAt(r, "unlink")
  /\ UNCHANGED <<now, tempDir>>
  /\ UNCHANGED oneVars

\* fs.unlink(tempFilePath): the file at the path is removed, or ENOENT.
TwoUnlink(r) ==
  /\ runs[r].at = "unlink"
  /\ LET path == TempFilePath(runs[r].blobName)
     IN IF tempDir[path].present
        THEN /\ tempDir' = [tempDir EXCEPT ![path] = NoFile]
             /\ touched' = touched \cup Touch(r, "unlink", tempDir[path])
             /\ runs' = RunAt(r, "returned")
        ELSE /\ runs' = RunAt(r, "threw")
             /\ UNCHANGED <<tempDir, touched>>
  /\ UNCHANGED <<now, container>>
  /\ UNCHANGED oneVars

TwoNext ==
  \E r \in Runs :
    \/ TwoBegin(r)
    \/ TwoOpenFile(r)
    \/ TwoWriteRows(r)
    \/ TwoReadFile(r)
    \/ TwoUpload(r)
    \/ TwoUnlink(r)

\* Two runs in flight, each at its own saveToParquet call.
TwoRunsSpec == Init /\ [][TwoNext]_vars

(* ---------------------- reading the history ---------------------------- *)
Idx == 1..Len(log)
Has(e) == \E k \in Idx : log[k].ev = e
HasFor(e, q) == \E k \in Idx : log[k].ev = e /\ log[k].q = q
CountOf(e) == Cardinality({k \in Idx : log[k].ev = e})

\* The calls of executeDaxQuery, and the attempts and waits of the call begun at k.
CallStarts == {k \in Idx : log[k].ev = "execute.call"}
LastCall == IF CallStarts = {} THEN 0 ELSE CHOOSE k \in CallStarts : \A j \in CallStarts : j <= k
SegEnd(k) ==
  IF \E j \in CallStarts : j > k
  THEN (CHOOSE j \in CallStarts : j > k /\ \A m \in CallStarts : m > k => j <= m) - 1
  ELSE Len(log)
IsAttemptOrWait(e) == e.ev \in {"attempt", "wait"}
Seg(k) == SelectSeq(SubSeq(log, k + 1, SegEnd(k)), IsAttemptOrWait)

\* S is attempt 1, wait, attempt 2, wait, ..., attempt n with only the last attempt
\* allowed to succeed.
Alternates(S) ==
  /\ Len(S) % 2 = 1
  /\ \A j \in 1..Len(S) :
       IF j % 2 = 1
       THEN S[j].ev = "attempt" /\ S[j].n = (j + 1) \div 2 /\ (j < Len(S) => S[j].k # "ok")
       ELSE S[j].ev = "wait"

(* ------------------------------ claims --------------------------------- *)
\* The names of the queries whose executeDaxQuery call threw after its last attempt.
ExhaustedNames == {log[k].q : k \in {j \in Idx : log[j].ev = "execute.throw"}}
Names == {body.queries[k] : k \in 1..Len(body.queries)}
KeySet(entries) == {entries[k].name : k \in 1..Len(entries)}

\* C1: when the dataset call of one query fails on all its attempts, run does not
\* raise: the query is skipped, every other query is still executed, the answer
\* is 200, processedData holds no exhausted query, and with two queries of which
\* the other succeeded the status is completed.
C1_ExhaustedQueryIsSkipped ==
  (entry = "http" /\ Has("execute.throw")) =>
    /\ thrown.kind \notin FailKinds
    /\ pc = "done" =>
         /\ \A q \in Names : HasFor("execute.call", q)
         /\ thrown = Undefined => response.status = 200
         /\ KeySet(runResult.processedData) \cap ExhaustedNames = {}
         /\ (thrown = Undefined /\ Len(body.queries) = 2
               /\ \E q \in Names : HasFor("persist.ok", q))
            => runResult.status = "completed"

\* C2: in every executeDaxQuery call whose first k attempts fail and whose attempt
\* k+1 succeeds, the attempts are numbered 1..k+1, one wait lies between each
\* failed attempt and the next attempt (k waits), nothing follows the successful
\* attempt, and the body that attempt received is what the call returns.  (Stated
\* of the latest call: it holds in every state, so of every call while it was
\* the latest.)
C2_SuccessAfterKFailures ==
  LET S == Seg(LastCall) IN
  (\E p \in 1..Len(S) : S[p].ev = "attempt" /\ S[p].k = "ok") =>
    /\ S[Len(S)].ev = "attempt" /\ S[Len(S)].k = "ok"
    /\ Alternates(S)
    /\ (Len(S) + 1) \div 2 <= retries
    /\ result = S[Len(S)].v
    /\ i + 1 = (Len(S) + 1) \div 2
    /\ pc \notin {"exec_loop", "delay"}
    /\ thrown.kind \notin FailKinds

\* A call returned on its third attempt, after two failures and two waits.
C2_Witness ==
  /\ entry = "execute" /\ pc = "done" /\ retries = 3
  /\ result = EnvRows(Rows2)
  /\ CountOf("attempt") = 3 /\ CountOf("wait") = 2

\* C3: in every executeDaxQuery call (retries >= 1) all of whose attempts fail,
\* exactly `retries` attempts are made with a wait between consecutive attempts
\* and none after the last (retries - 1 waits), the error thrown is the one the
\* last attempt recorded, and nothing is attempted afterwards.
C3_ExhaustionRaisesLastError ==
  (Has("execute.throw") /\ retries >= 1) =>
    LET S == Seg(LastCall) IN
      /\ Alternates(S)
      /\ Len(S) = 2 * retries - 1
      /\ S[Len(S)].k \in FailKinds
      /\ thrown = Err(S[Len(S)].k, retries)
      /\ pc = "done"
      /\ log[Len(log)].ev \in {"execute.throw", "respond"}

\* Three attempts failed, the first two with a status, the last for the network.
C3_Witness ==
  /\ entry = "execute" /\ pc = "done" /\ retries = 3
  /\ thrown = Err("network", 3)
  /\ CountOf("attempt") = 3 /\ CountOf("wait") = 2
  /\ \E k \in Idx : log[k].ev = "attempt" /\ log[k].k = "status"

\* Some entry of the history before position k is the event e (of query q).
Earlier(k, e) == \E j \in 1..(k - 1) : log[j].ev = e
Resolved(k, q) == \E j \in 1..(k - 1) : log[j].q = q /\ log[j].ev \in {"persist.ok", "skip"}

\* C4: in a run createSearchIndex has completed before any query is executed,
\* before any persist call and before any indexing call, and the indexing call
\* comes only after the persistence of every query of the run has resolved
\* (saveToParquet returned, or the query was skipped).
C4_EnsureIndexFirstIndexBatchLast ==
  entry = "http" =>
    /\ \A k \in Idx :
         /\ log[k].ev \in {"execute.call", "attempt", "persist.call", "upload",
                           "indexBatch.call"}
            => Earlier(k, "ensureIndex.ok")
         /\ log[k].ev = "indexBatch.call" => \A q \in Names : Resolved(k, q)
    /\ (pc = "index" \/ Len(indexed) > 0) => Has("indexBatch.call")

\* A run of two queries, one skipped and one persisted, reached the indexing call.
C4_Witness ==
  /\ entry = "http" /\ pc = "index" /\ Len(body.queries) = 2
  /\ Has("skip") /\ Has("persist.ok")

\* C5: a failure of createSearchIndex or of the indexing call leaves run as an
\* error: run returns no result and the controller answers 500 with that error;
\* after a failed createSearchIndex no query was executed, no blob was written
\* and nothing was indexed.
C5_IndexFailuresAreFatal ==
  /\ Has("ensureIndex.fail") =>
       /\ pc = "done" /\ runResult = NoResult
       /\ thrown = Err("index.create", 0)
       /\ response = [status |-> 500, result |-> NoResult, details |-> thrown]
       /\ ~Has("execute.call") /\ ~Has("attempt") /\ ~Has("persist.call")
       /\ ~Has("upload") /\ ~Has("indexBatch.call")
       /\ blobs = {} /\ tmpFiles = {} /\ indexed = <<>>
  /\ (entry = "http" /\ Has("indexBatch.fail")) =>
       /\ pc = "done" /\ runResult = NoResult
       /\ thrown = Err("index.upload", 0)
       /\ response = [status |-> 500, result |-> NoResult, details |-> thrown]

\* The indexing call failed after a blob had been written.
C5_Witness ==
  /\ Has("indexBatch.fail") /\ blobs # {} /\ response.status = 500

\* The attempts of a run whose body normalizes to a RowSet, and the batch they make.
Producing(e) ==
  /\ e.ev = "attempt" /\ e.k = "ok" /\ e.q # ""
  /\ e.v.tag = "obj" /\ ~NormalizeThrows(e.v)
  /\ ~processPowerBiResponse(e.v).isNull
ProducedBatch ==
  LET P == SelectSeq(log, Producing)
  IN  [k \in 1..Len(P) |-> [name |-> P[k].q, rows |-> processPowerBiResponse(P[k].v).rows]]
FinishedLoop == Has("indexBatch.call") \/ Has("run.return")

\* C6: a run never makes more than one indexing call; a run that got through all
\* its queries makes exactly one if some query produced a non-null RowSet, with
\* exactly the RowSets accumulated under their query names, and none otherwise.
C6_IndexBatchOnce ==
  entry = "http" =>
    /\ Len(indexed) <= 1
    /\ CountOf("indexBatch.call") <= 1
    /\ (FinishedLoop /\ pc = "done") =>
         IF ProducedBatch # <<>> THEN indexed = <<ProducedBatch>> ELSE indexed = <<>>

\* Both queries of a run produced a RowSet and one call indexed both.
C6_Witness ==
  /\ entry = "http" /\ pc = "done" /\ Len(indexed) = 1 /\ Len(indexed[1]) = 2
  /\ indexed[1][1].rows # indexed[1][2].rows

\* C7: the result run returns has status completed exactly when some query of the
\* run produced a RowSet that was persisted and indexed in this run, and status
\* failed otherwise.
C7_StatusCompletedIffIndexed ==
  runResult # NoResult =>
    /\ runResult.status \in {"completed", "failed"}
    /\ runResult.status = "completed" <=>
         \E q \in Names :
           /\ q \in KeySet(ProducedBatch)
           /\ HasFor("persist.ok", q)
           /\ Has("indexBatch.ok") /\ Len(indexed) = 1 /\ q \in KeySet(indexed[1])

\* A run of two queries returned failed: neither produced a RowSet.
C7_Witness ==
  /\ runResult.status = "failed" /\ Len(body.queries) = 2 /\ response.status = 200

\* The attempts of a run whose body normalizes to null (or is no object at all).
NormalizesToNull(e) ==
  /\ e.ev = "attempt" /\ e.k = "ok" /\ e.q # ""
  /\ ~NormalizeThrows(e.v)
  /\ processPowerBiResponse(e.v).isNull

\* C8: when the normalization of a query's raw result yields null, saveToParquet
\* is not called for that query, the query is in neither processedData nor the
\* indexed batch, and the run goes on (to the next query or to the end of the
\* loop) without raising.
C8_NullNormalizationSkips ==
  \A k \in Idx :
    NormalizesToNull(log[k]) =>
      /\ ~HasFor("persist.call", log[k].q)
      /\ log[k].q \notin KeySet(processedData)
      /\ \A b \in 1..Len(indexed) : log[k].q \notin KeySet(indexed[b])
      /\ log[k].q \notin KeySet(runResult.processedData)
      /\ k = Len(log) => pc = "exec_return" /\ thrown = Undefined
      /\ k < Len(log) => log[k + 1].ev = "execute.return"
      /\ k + 1 = Len(log) => pc = "loop" /\ thrown = Undefined
      /\ k + 1 < Len(log) =>
           /\ log[k + 2].ev = "skip"
           /\ k + 2 < Len(log) => log[k + 3].ev \in {"execute.call", "indexBatch.call", "run.return"}

\* The first query normalized to null and the second was persisted and indexed.
C8_Witness ==
  /\ entry = "http" /\ pc = "done" /\ runResult.status = "completed"
  /\ Len(body.queries) = 2
  /\ HasFor("skip", body.queries[1]) /\ HasFor("persist.ok", body.queries[2])
  /\ \E k \in Idx : log[k].ev = "skip" /\ log[k].k = "null"

\* C9: a saveToParquet call with rows that reaches its upload makes exactly one
\* upload call and, once it has ended (returned or thrown), has left no
\* temporary file behind, whether the upload succeeded or failed.
C9_PersistCleansUp ==
  \A k \in Idx :
    (log[k].ev \in {"persist.ok", "persist.throw"}
       /\ \E j \in Idx : log[j].ev = "upload" /\ log[j].q = log[k].q /\ log[j].n = log[k].n)
    => /\ Cardinality({j \in Idx : log[j].ev = "upload" /\ log[j].q = log[k].q
                                     /\ log[j].n = log[k].n}) = 1
       /\ TempFilePath(<<log[k].q, log[k].n>>) \notin tmpFiles

\* C10: a saveToParquet call with an empty or absent array throws 'No data to
\* save.' at once: no upload call is made, no temporary file is created and
\* the container is left as it was.
C10_EmptyRowSetRefused ==
  (Has("persist.call") /\ (data.isNull \/ Len(data.rows) = 0)) =>
    /\ pc = "done"
    /\ thrown = Err("nodata", 0)
    /\ log[Len(log)].ev \in {"persist.throw", "respond"}
    /\ \A j \in Idx : log[j].ev = "upload" => <<log[j].q, log[j].n>> # blobName
    /\ TempFilePath(blobName) \notin tmpFiles
    /\ blobName \notin blobs
    /\ \A j \in Idx : log[j].ev = "persist.throw" /\ log[j].k = "nodata"
         => j > 1 /\ log[j - 1].ev = "persist.call"

\* saveToParquet was called with an array of no rows and threw.
C10_Witness ==
  /\ data = Some(Rows0) /\ thrown = Err("nodata", 0) /\ pc = "done"

(* --------------------------- the relay --------------------------------- *)
RECURSIVE Flat(_)
Flat(chunks) == IF chunks = <<>> THEN <<>> ELSE Head(chunks) \o Flat(Tail(chunks))

\* Bytes that are whole characters; bytes that may end inside a character.
WholeChars(bytes) ==
  \A k \in 1..Len(bytes) :
    /\ bytes[k] = "L" => k < Len(bytes) /\ bytes[k + 1] = "C"
    /\ bytes[k] = "C" => k > 1 /\ bytes[k - 1] = "L"
WellFormedSoFar(bytes) ==
  \A k \in 1..Len(bytes) :
    /\ bytes[k] = "L" => k = Len(bytes) \/ bytes[k + 1] = "C"
    /\ bytes[k] = "C" => k > 1 /\ bytes[k - 1] = "L"
WithoutLeadingMark(bytes) ==
  IF bytes /= <<>> /\ Head(bytes) = "B" THEN Tail(bytes) ELSE bytes

\* C11 as stated: at every moment the emitted chunks are a prefix of the
\* upstream chunks, and the outbound stream is closed once the upstream ended.
C11_EmittedIsPrefixOfUpstream ==
  entry = "relay" =>
    /\ Len(emitted) <= Len(upstream)
    /\ \A k \in 1..Len(emitted) : emitted[k] = upstream[k]
    /\ upstreamEnd = "done" => streamState = "closed"

\* C11, amended: the relay enqueues exactly one chunk per upstream chunk, in
\* order and never merged, and the caller takes them in that order; each
\* emitted chunk is the UTF-8 encoding of what the streaming decoder yields for
\* its upstream chunk, so the emitted chunks equal the upstream chunks when
\* every chunk holds whole characters and the stream does not open with a
\* byte-order mark, and for any well-formed stream the emitted bytes plus the
\* bytes the decoder still holds are the upstream bytes less a leading mark;
\* the outbound stream is closed exactly when the upstream signalled its end.
C11_OneChunkPerUpstreamChunk ==
  entry = "relay" =>
    /\ Len(emitted) = Len(upstream)
    /\ streamState /= "errored" => delivered \o queue = emitted
    /\ ((\A k \in 1..Len(upstream) : WholeChars(upstream[k]))
        /\ WithoutLeadingMark(Flat(upstream)) = Flat(upstream))
         => emitted = upstream
    /\ WellFormedSoFar(Flat(upstream))
         => Flat(emitted) \o decoder.pending = WithoutLeadingMark(Flat(upstream))
    /\ upstreamEnd = "done" <=> streamState = "closed"
    /\ upstreamEnd = "done" => pc = "done"

\* Three chunks, a character split over the first two, all taken by the caller,
\* and the stream closed.
C11_Witness ==
  /\ upstream = << <<"a", "L">>, <<"C", "a">>, <<"a">> >>
  /\ emitted = << <<"a">>, <<"L", "C", "a">>, <<"a">> >>
  /\ delivered = emitted
  /\ streamState = "closed"

\* C12: when BACKEND_URL is not set the relay answers 500 without streaming,
\* fetch is never called and no read of an upstream body happens.
C12_UnconfiguredUrlNoNetworkCall ==
  (entry = "relay" /\ ~backendUrl) =>
    /\ fetchCalls = 0
    /\ upstreamResponse = NoAnswer
    /\ pc \in {"r_json", "done"}
    /\ streamState = "none" /\ upstream = <<>>
    /\ pc = "done" => relayResponse.status = 500 /\ ~relayResponse.streamed

\* The relay has answered that the URL is not configured.
C12_Witness ==
  /\ entry = "relay" /\ ~backendUrl /\ pc = "done"
  /\ relayResponse = RelayResponse(500, "Backend URL is not configured.", FALSE)

C14_EveryFailureAnswered ==
  (entry = "relay" /\ pc = "done"
   /\ (upstreamResponse.settled = "rejected" \/ upstreamEnd = "error")) =>
    /\ relayResponse.status >= 400
    /\ relayResponse.message /= ""

\* C15 as stated: the chunks read from the upstream and not yet taken by the
\* caller are never more than one.
C15_AtMostOneChunkHeld ==
  (entry = "relay" /\ streamState = "readable") => Len(upstream) - Len(delivered) <= 1

(* --------------------------- the controller ---------------------------- *)
PipelineSteps == {"ensureIndex.call", "execute.call", "persist.call", "indexBatch.call"}

C17_AttemptsCarryAcquiredCredential ==
  /\ (entry = "http" /\ Has("attempt")) =>
       /\ accessToken \in Tokens
       /\ accessToken = acquired
       /\ \E a \in Idx : /\ log[a].ev = "acquire.ok"
                         /\ \A k \in Idx : log[k].ev = "attempt" => a < k
  /\ entry = "execute" => ~Has("acquire.call")

(* ------------------------ processPowerBiResponse ----------------------- *)
\* The first result of an envelope, when there is one.
HasFirstResult(r) ==
  r.tag = "obj" /\ r.hasResults /\ Len(r.results) > 0 /\ ~r.results[1].isNull
HasFirstTable(r) ==
  HasFirstResult(r) /\ r.results[1].hasTables /\ Len(r.results[1].tables) > 0

\* C18 as stated: a call of processPowerBiResponse returns; it returns null for
\* an envelope that is absent, has no first result, whose first result has no
\* tables or an empty tables array, and the rows of the first table for every
\* other envelope; its argument is left as it was.
C18_NullOrRowsOfFirstTable ==
  (entry = "normalize" /\ pc = "done") =>
    /\ thrown = Undefined
    /\ result \in NormalizeInputs
    /\ IF HasFirstTable(result)
       THEN processed = Some(result.results[1].tables[1].rows)
       ELSE processed = Null

(* --------------------------- indexPowerBIData -------------------------- *)
\* The batches of documents uploaded and the dataframes each was built from.
Batches == 1..Len(uploads)

\* C19: a call of indexPowerBIData hands one array to uploadDocuments, once,
\* with exactly one document per entry of dataframes, in order; the metadata of
\* each document has the name of its query, rowCount the number of rows of the
\* entry and columns the column names of its first row (none for no rows).
C19_OneDocumentPerEntryOneUpload ==
  /\ Len(uploads) = Len(indexed)
  /\ Len(uploads) = CountOf("indexBatch.ok") + CountOf("indexBatch.fail")
  /\ CountOf("indexBatch.call") = Len(uploads) + (IF pc = "index" THEN 1 ELSE 0)
  /\ CountOf("indexBatch.call") <= 1
  /\ \A b \in Batches :
       /\ Len(uploads[b]) = Len(indexed[b])
       /\ \A k \in 1..Len(uploads[b]) :
            LET doc == uploads[b][k]
                e   == indexed[b][k]
            IN /\ doc.metadata.query = e.name
               /\ doc.metadata.rowCount = Len(e.rows)
               /\ doc.metadata.columns =
                    (IF e.rows = <<>> THEN <<>>
                     ELSE [c \in 1..Len(e.rows[1]) |-> e.rows[1][c].col])
               /\ doc.content = e.rows
  /\ entry = "http" /\ uploads /= <<>> => indexed[1] = processedData

\* Two rows with the columns region and amount were indexed as one document.
C19_Witness ==
  /\ Len(uploads) = 1 /\ Len(uploads[1]) = 1
  /\ uploads[1][1].metadata.rowCount = 2
  /\ uploads[1][1].metadata.columns = <<"region", "amount">>
  /\ Has("indexBatch.ok")

\* C20: the identifiers of the documents of one uploadDocuments call are
\* pairwise distinct.
C20_IdentifiersDistinctInBatch ==
  \A b \in Batches :
    \A j, k \in 1..Len(uploads[b]) : j /= k => uploads[b][j].id /= uploads[b][k].id

\* Two documents built at the same reading of the clock were uploaded together.
C20_Witness ==
  /\ Len(uploads) = 1 /\ Len(uploads[1]) = 2
  /\ uploads[1][1].metadata.timestamp = uploads[1][2].metadata.timestamp
  /\ uploads[1][1].id = <<"p", "o", "w", "e", "r", "b", "i", "_", "q", "_", "1">>

\* The entries of a mapping of dataframes that have rows.
HasRows(e) == e.rows /= <<>>

\* C21 as stated: an entry of dataframes with no rows does not make the call
\* throw while the documents are built and adds no document to the batch that
\* is uploaded.
C21_EmptyRowSetAddsNoDocument ==
  /\ \A b \in Batches :
       /\ Len(uploads[b]) = Len(SelectSeq(indexed[b], HasRows))
       /\ \A k \in 1..Len(uploads[b]) : uploads[b][k].content /= <<>>
  /\ (entry = "index" /\ pc = "done" /\ thrown /= Undefined) => Has("indexBatch.fail")

(* ------------------------- the order of a run -------------------------- *)
IsExecuteCall(e) == e.ev = "execute.call"
ExecuteCalls == SelectSeq(log, IsExecuteCall)

\* The place of a query name in Object.entries of the request's mapping (0 when
\* it has none).
PlaceIn(entries, q) ==
  IF \E k \in 1..Len(entries) : entries[k] = q
  THEN CHOOSE k \in 1..Len(entries) : entries[k] = q
  ELSE 0
Place(q) == PlaceIn(ObjectEntries(body.queries), q)
IsOfQuery(e) == e.q /= ""

\* The events of different queries never interleave, and when a call or an
\* attempt of a query happens every query before it has been resolved (skipped,
\* or persisted with saveToParquet returned).
OneAtATime ==
  LET entries == ObjectEntries(body.queries)
      named == SelectSeq(log, IsOfQuery)
  IN /\ \A k \in 1..(Len(named) - 1) :
          PlaceIn(entries, named[k].q) <= PlaceIn(entries, named[k + 1].q)
     /\ \A p \in Idx :
          log[p].ev \in {"execute.call", "attempt"} =>
            \A m \in 1..(PlaceIn(entries, log[p].q) - 1) : Resolved(p, entries[m])

\* C22 as stated: in a run the queries are taken one at a time in the order in
\* which the mapping of the request lists them.
C22_InsertionOrder ==
  entry = "http" =>
    /\ Len(ExecuteCalls) <= Len(body.queries)
    /\ \A k \in 1..Len(ExecuteCalls) : ExecuteCalls[k].q = body.queries[k]
    /\ OneAtATime

\* C22, amended: in a run the queries are taken one at a time in the order of
\* Object.entries(daxQueries), which is the insertion order when no query name
\* is an array index and otherwise has the index names first, ascending: the
\* k-th executeDaxQuery call is for the k-th entry, the events of different
\* queries never interleave, and a query starts only after every query before
\* it has been resolved.
C22_QueriesOneAtATimeInOrder ==
  entry = "http" =>
    /\ Len(ExecuteCalls) <= Len(body.queries)
    /\ ExecuteCalls /= <<>> =>
         LET entries == ObjectEntries(body.queries)
         IN \A k \in 1..Len(ExecuteCalls) : ExecuteCalls[k].q = entries[k]
    /\ (\A j \in 1..Len(body.queries) : ~IsIndexKey(body.queries[j])) =>
         \A k \in 1..Len(ExecuteCalls) : ExecuteCalls[k].q = body.queries[k]
    /\ OneAtATime

\* A run of two queries persisted both, the second after the first.
C22_Witness ==
  /\ entry = "http" /\ pc = "done" /\ body.queries = <<"sales", "7">>
  /\ Len(ExecuteCalls) = 2 /\ ExecuteCalls[1].q = "7" /\ ExecuteCalls[2].q = "sales"
  /\ CountOf("persist.ok") = 2
  /\ CountOf("persist.ok") = 2
  /\ Len(ExecuteCalls) = 2

(* ---------------------- the progress of the relay ---------------------- *)
\* How far a relay execution is: parsing, forwarding, streaming, over.
RelayRank ==
  CASE pc = "r_json" -> 1
    [] pc = "r_fetch" -> 2
    [] pc = "r_read" -> 3
    [] pc = "done" -> 4
    [] OTHER -> 0

RelayStepsForward ==
  entry = "relay" =>
    /\ RelayRank' >= RelayRank
    /\ streamState = "closed" =>
         /\ streamState' = "closed"
         /\ emitted' = emitted /\ upstream' = upstream /\ upstreamEnd' = upstreamEnd
         /\ pc' = "done"
    /\ streamState' = "closed" => upstreamEnd' = "done"
    /\ streamState = "readable" => streamState' /= "none"

\* C23: a relay execution only moves forward (parsing, forwarding, streaming,
\* over); the outbound stream is closed only when the upstream has signalled
\* its end, after the close no chunk is emitted and no read is issued, and once
\* the upstream has signalled its end the outbound stream gets closed; a relay
\* that streams gets to the end of the upstream body or to its failure.
C23_RelayOnlyForward ==
  /\ [][RelayStepsForward]_vars
  /\ [](streamState = "closed" => upstreamEnd = "done" /\ pc = "done")
  /\ (upstreamEnd = "done") ~> (streamState = "closed")
  /\ (entry = "relay" /\ pc = "r_read") ~> (streamState \in {"closed", "errored"})

\* Two chunks were streamed, the upstream ended and the stream was closed with
\* the second chunk still to be taken.
C23_Witness ==
  /\ entry = "relay" /\ upstreamEnd = "done" /\ streamState = "closed"
  /\ Len(emitted) = 2 /\ Len(delivered) = 1 /\ Len(queue) = 1

(* ------------------------- a failed saveToParquet ---------------------- *)
\* The place in the history where saveToParquet threw in this run (0 if none).
PersistThrow ==
  IF Has("persist.throw")
  THEN CHOOSE k \in Idx : log[k].ev = "persist.throw"
  ELSE 0

\* An attempt of a run whose body normalizes to an array of no rows.
NormalizesToNoRows(e) ==
  /\ e.ev = "attempt" /\ e.k = "ok" /\ e.q /= ""
  /\ ~NormalizeThrows(e.v)
  /\ processPowerBiResponse(e.v) = Some(<<>>)

\* C24: when saveToParquet throws for a query of a run, as it does for a query
\* whose rows are an empty array, run throws that error at once: nothing but the
\* failure of run and the 500 answer follows, no later query is executed, the
\* indexing call is never made, run returns nothing, and the blob of every
\* query persisted before is still in the container.
C24_PersistFailureAbortsRun ==
  entry = "http" =>
    /\ Has("persist.throw") =>
         /\ CountOf("persist.throw") = 1
         /\ pc = "done"
         /\ thrown = Err(log[PersistThrow].k, 0)
         /\ runResult = NoResult /\ ~Has("run.return")
         /\ response = [status |-> 500, result |-> NoResult, details |-> thrown]
         /\ Len(log) = PersistThrow + 2
         /\ log[PersistThrow + 1].ev = "run.throw" /\ log[PersistThrow + 2].ev = "respond"
         /\ ~Has("indexBatch.call") /\ indexed = <<>> /\ uploads = <<>>
         /\ \A k \in Idx : log[k].ev = "execute.call" => Place(log[k].q) <= Place(log[PersistThrow].q)
         /\ \A k \in Idx : log[k].ev = "persist.ok" => <<log[k].q, log[k].n>> \in blobs
    /\ \A k \in Idx :
         (NormalizesToNoRows(log[k]) /\ k + 1 \in Idx) =>
           /\ Len(log) >= k + 3
           /\ log[k + 1].ev = "execute.return"
           /\ log[k + 2].ev = "persist.call"
           /\ log[k + 3].ev = "persist.throw" /\ log[k + 3].k = "nodata"

\* The first query of a run was persisted, the second had no rows: run threw
\* 'No data to save.' and the first blob is still there.
C24_Witness ==
  /\ entry = "http" /\ pc = "done"
  /\ thrown = Err("nodata", 0)
  /\ Has("persist.ok") /\ blobs /= {}
  /\ response.status = 500

(* ----------------------- the attempts of one call ---------------------- *)
\* C25 as stated: a call of executeDaxQuery, whatever its retries argument (0
\* included), makes at least one attempt and no more than retries (one, for
\* retries 0), and when it throws, what it throws is the error of one of its
\* own attempts, never undefined.
C25_AtLeastOneAttemptOwnError ==
  (entry = "execute" /\ pc = "done") =>
    /\ CountOf("attempt") >= 1
    /\ CountOf("attempt") <= (IF retries = 0 THEN 1 ELSE retries)
    /\ Has("execute.throw") =>
         /\ thrown /= Undefined
         /\ \E k \in Idx : /\ log[k].ev = "attempt"
                           /\ log[k].k = thrown.kind /\ log[k].n = thrown.attempt

(* ------------------------- two runs in flight -------------------------- *)
\* C26 as stated: of two runs in flight neither reads, uploads or removes a
\* temporary file the other wrote, neither overwrites a blob the other wrote,
\* and neither fails for a file the other removed, whatever the interleaving,
\* the query names and the readings of the clock.
C26_RunsDoNotInterfere ==
  /\ \A t \in touched : t.of = t.run
  /\ \A r \in Runs : runs[r].at /= "threw"
  /\ \A r \in Runs :
       runs[r].at = "returned" =>
         container[runs[r].blobName] = File(r, runs[r].rows)

(* ------------------------- the end of a run ---------------------------- *)
AttemptsOf(q) == Cardinality({k \in Idx : log[k].ev = "attempt" /\ log[k].q = q})
PersistCallsOf(q) == Cardinality({k \in Idx : log[k].ev = "persist.call" /\ log[k].q = q})
RunStarted == entry = "http" /\ body.hasDatasetId /\ body.hasQueries
RunOver == pc = "done" /\ (Has("run.return") \/ Has("run.throw"))

\* The calls a run has made are within their numbers.
CallsWithinBounds ==
  RunStarted =>
    /\ CountOf("ensureIndex.call") = 1
    /\ CountOf("indexBatch.call") <= 1
    /\ CountOf("execute.call") <= Len(body.queries)
    /\ \A q \in Names :
         /\ AttemptsOf(q) <= DefaultRetries
         /\ PersistCallsOf(q) <= 1

\* C27: when every awaited call settles, a run over a finite mapping comes to
\* its end, returning or throwing, and has then made exactly one
\* createSearchIndex call, at most 3 attempts and at most one saveToParquet
\* call per query, and at most one indexPowerBIData call.
C27_RunTerminatesWithinBounds ==
  /\ RunStarted ~> RunOver
  /\ [](CallsWithinBounds)
  /\ [](RunOver => RunStarted /\ CountOf("run.return") + CountOf("run.throw") = 1)

\* A run of two queries used all three attempts for the first, persisted the
\* second, indexed it and returned.
C27_Witness ==
  /\ RunStarted /\ RunOver /\ Has("run.return")
  /\ Len(body.queries) = 2
  /\ \E q \in Names : AttemptsOf(q) = DefaultRetries
  /\ CountOf("persist.call") = 1 /\ CountOf("indexBatch.call") = 1

====
